---- MODULE Spec2Model ----
(***************************************************************************)
(* Rent invoicing: the payment allocation engine                           *)
(* (process_accounts_receivables), the duplicate filter                    *)
(* (filter_for_new_items), charge issuance (incur_recurring_charges) and   *)
(* late fees (incur_late_fee) of app/utilities/data_transformation.py, the *)
(* monthly job (add_monthly_charges) and the application of payments      *)
(* (process_payments_api) of app/main.py, and the validators of            *)
(* app/utilities/data_models.py.                                           *)
(*                                                                         *)
(* Money is held in whole cents (integers).  Timestamps and statement      *)
(* periods are small naturals, a larger number being a later moment.       *)
(***************************************************************************)
EXTENDS Integers, Sequences, FiniteSets

(* ------------------------------ bounds --------------------------------- *)

\* Longest receivable list handed to one allocation call.
MaxAR == 2

\* Longest payment list the caller holds.
MaxPay == 2

\* Largest amount (of a receivable or of a payment), in cents.
MaxAmount == 2

\* Most candidate receivables handed to one run of the duplicate filter, all
\* four candidate lists together.
MaxCand == 2

\* Longest list of outstanding receivables handed to the duplicate filter.
MaxOut == 1

(* ---------------------------- data model ------------------------------- *)

ChargeTypes == {"LATEFEE", "WATER", "STORAGE", "RENT", "OTHER"}

Accounts == {"a1", "a2"}

\* The empty details payload ({}), and the provenance one of a residual.
NoDetails == [key |-> "", ref |-> 0]

ResidualDetails(id) == [key |-> "residual carried over from", ref |-> id]

AccountsReceivable(id, account_id, amount_due, statement_date, charge_type, paid, details, inserted_at) ==
    [id |-> id, account_id |-> account_id, amount_due |-> amount_due,
     statement_date |-> statement_date, charge_type |-> charge_type,
     paid |-> paid, details |-> details, inserted_at |-> inserted_at]

\* A payment as submitted: nothing applied yet (amount_applied defaults to 0).
Payment(id, account_id, amount, received) ==
    [id |-> id, beneficiary_account_id |-> account_id, amount |-> amount,
     amount_applied |-> 0, payment_received |-> received]

\* round(n / d, 2) of an amount of n/d cents: the nearest whole cent, a tie
\* going to the even cent.
Round2(n, d) ==
    LET q == n \div d
        r == n % d
    IN  IF 2 * r < d THEN q
        ELSE IF 2 * r > d THEN q + 1
        ELSE IF q % 2 = 0 THEN q ELSE q + 1

(* ------------------------ sequence helpers ----------------------------- *)

RECURSIVE SumSeq(_)
SumSeq(s) == IF s = <<>> THEN 0 ELSE Head(s) + SumSeq(Tail(s))

Range(s) == {s[i] : i \in 1..Len(s)}

Ids(s) == {s[i].id : i \in 1..Len(s)}

MaxOf(S) == IF S = {} THEN 0 ELSE CHOOSE x \in S : \A y \in S : y <= x

(* -------------------- process_accounts_receivables --------------------- *)

\* One insertion of the stable sort: x goes behind every element whose
\* inserted_at is at least its own, so equal timestamps keep the caller's
\* order (sorted(..., reverse=True) is stable).
RECURSIVE InsertDesc(_, _)
InsertDesc(x, s) ==
    IF s = <<>> THEN <<x>>
    ELSE IF Head(s).inserted_at >= x.inserted_at
         THEN <<Head(s)>> \o InsertDesc(x, Tail(s))
         ELSE <<x>> \o s

RECURSIVE SortFrom(_, _)
SortFrom(s, acc) ==
    IF s = <<>> THEN acc ELSE SortFrom(Tail(s), InsertDesc(Head(s), acc))

\* Mutant: the sort left out, the receivables processed in the caller's order.
SortByInsertedAt_Unsorted(s) == s

\* Mutant: the sort ascending (reverse=True forgotten), earliest first.
RECURSIVE SortByInsertedAt_Ascending(_)
SortByInsertedAt_Ascending(s) ==
    IF s = <<>> THEN <<>>
    ELSE LET m == CHOOSE i \in 1..Len(s) :
                     \A j \in 1..Len(s) :
                        \/ s[i].inserted_at < s[j].inserted_at
                        \/ s[i].inserted_at = s[j].inserted_at /\ i <= j
         IN  <<s[m]>> \o SortByInsertedAt_Ascending(
                             [k \in 1..(Len(s) - 1) |->
                                 IF k < m THEN s[k] ELSE s[k + 1]])

\* sorted(accounts_receivables, key=inserted_at, reverse=True)
SortByInsertedAtDesc(s) == SortFrom(s, <<>>)

\* original_amounts = {i.id: i.amount_due for i in accounts_receivables}
OriginalAmounts(s) ==
    [k \in Ids(s) |->
        LET last == MaxOf({i \in 1..Len(s) : s[i].id = k}) IN s[last].amount_due]

\* Mutant: a payment that covers the receivable is used up whole.
FullyCover_WholePayment(payment, receivable) ==
    [payment |-> [payment EXCEPT !.amount_applied = payment.amount],
     receivable |-> [receivable EXCEPT !.paid = TRUE, !.amount_due = 0]]

\* Mutant: the covered receivable is not marked paid.
FullyCover_NotMarkedPaid(payment, receivable) ==
    [payment |-> [payment EXCEPT !.amount_applied = @ + receivable.amount_due],
     receivable |-> [receivable EXCEPT !.amount_due = 0]]

\* Mutant: the covering payment is written down by the amount due.
FullyCover_LowersAmount(payment, receivable) ==
    [payment |-> [payment EXCEPT !.amount = @ - receivable.amount_due],
     receivable |-> [receivable EXCEPT !.paid = TRUE, !.amount_due = 0]]

\* "Fully cover the receivable": the payment absorbs the amount due.
FullyCover(payment, receivable) ==
    [payment |-> [payment EXCEPT !.amount_applied = @ + receivable.amount_due],
     receivable |-> [receivable EXCEPT !.paid = TRUE, !.amount_due = 0]]

\* Mutant: the partial branch books the amount due, not the amount available.
PartiallyCover_AppliesAmountDue(payment, receivable) ==
    [payment |-> [payment EXCEPT !.amount_applied = @ + receivable.amount_due],
     receivable |-> [receivable EXCEPT
                        !.amount_due = @ - (payment.amount - payment.amount_applied)]]

\* "Partially cover the receivable": all the payment has left goes to it.
PartiallyCover(payment, receivable) ==
    LET available_payment_amount == payment.amount - payment.amount_applied
    IN  [payment |-> [payment EXCEPT
                         !.amount_applied = @ + available_payment_amount],
         receivable |-> [receivable EXCEPT
                            !.amount_due = @ - available_payment_amount]]

\* Mutant: the pointer moves on after every pass, exhausted payment or not.
WhileBody_AlwaysAdvances(f) ==
    LET i == f.payment_index + 1
        payment == f.payments[i]
        r == f.receivable
        available_payment_amount == payment.amount - payment.amount_applied
        applied == IF available_payment_amount > 0
                   THEN IF available_payment_amount >= r.amount_due
                        THEN FullyCover(payment, r)
                        ELSE PartiallyCover(payment, r)
                   ELSE [payment |-> payment, receivable |-> r]
        pays1 == [f.payments EXCEPT ![i] = applied.payment]
    IN  [receivable |-> applied.receivable,
         payments |-> pays1,
         payment_index |-> f.payment_index + 1,
         tried_processing |-> f.tried_processing \/ available_payment_amount > 0,
         log |-> IF available_payment_amount > 0
                 THEN Append(f.log, [receivable |-> r.id, payment |-> i,
                                     available |-> available_payment_amount,
                                     due |-> r.amount_due, payments |-> pays1])
                 ELSE f.log]

\* The body of the while loop, on the frame
\* [receivable, payments, payment_index (0-based), tried_processing, log].
\* log is a history of the call: one entry per pass that found money
\* available, naming the receivable and the payment, what was available and
\* due when the pass began, and the payment list as the pass left it.
WhileBody(f) ==
    LET i == f.payment_index + 1
        payment == f.payments[i]
        r == f.receivable
        available_payment_amount == payment.amount - payment.amount_applied
        applied == IF available_payment_amount > 0
                   THEN IF available_payment_amount >= r.amount_due
                        THEN FullyCover(payment, r)
                        ELSE PartiallyCover(payment, r)
                   ELSE [payment |-> payment, receivable |-> r]
        p1 == applied.payment
        pays1 == [f.payments EXCEPT ![i] = p1]
    IN  [receivable |-> applied.receivable,
         payments |-> pays1,
         payment_index |-> IF p1.amount_applied >= p1.amount
                           THEN f.payment_index + 1 ELSE f.payment_index,
         tried_processing |-> f.tried_processing \/ available_payment_amount > 0,
         log |-> IF available_payment_amount > 0
                 THEN Append(f.log, [receivable |-> r.id, payment |-> i,
                                     available |-> available_payment_amount,
                                     due |-> r.amount_due, payments |-> pays1])
                 ELSE f.log]

\* Mutant: the loop gives a receivable one pass only.
WhileLoop_OnePass(f) ==
    IF f.payment_index < Len(f.payments) /\ f.receivable.amount_due > 0
    THEN WhileBody(f)
    ELSE f

\* while payment_index < len(payments) and receivable.amount_due > 0
RECURSIVE WhileLoop(_)
WhileLoop(f) ==
    IF f.payment_index < Len(f.payments) /\ f.receivable.amount_due > 0
    THEN WhileLoop(WhileBody(f))
    ELSE f

\* The id (uuid4) of a receivable constructed during the call: one no
\* receivable at hand bears.
FreshId(used) == MaxOf(used) + 1

\* new_receivable: the residual minted for a partially covered receivable.
NewResidual(r, used) ==
    AccountsReceivable(FreshId(used), r.account_id, Round2(r.amount_due, 1),
                       r.statement_date, r.charge_type, FALSE,
                       ResidualDetails(r.id), r.inserted_at)

\* Mutant: the partially covered original keeps its reduced amount_due.
RestoreOriginal_NotRestored(r, original_amounts) == r

\* receivable.amount_due = original_amounts[receivable.id]
RestoreOriginal(r, original_amounts) ==
    [r EXCEPT !.amount_due = original_amounts[r.id]]

\* Mutant: a receivable no payment reached comes back marked paid.
Classify_NotPaidMarkedPaid(st, f, original_amounts) ==
    LET r == f.receivable
        new_receivable == NewResidual(r, st.ids \cup Ids(st.residual))
        restored == RestoreOriginal(r, original_amounts)
        base == [st EXCEPT !.payments = f.payments,
                           !.payment_index = f.payment_index,
                           !.log = f.log]
    IN  IF r.amount_due > 0 /\ f.tried_processing
        THEN [base EXCEPT
                !.residual = Append(@, new_receivable),
                !.partially_paid = Append(@, [restored EXCEPT !.paid = TRUE])]
        ELSE IF r.amount_due > 0 /\ ~f.tried_processing
        THEN [base EXCEPT !.not_paid = Append(@, [r EXCEPT !.paid = TRUE])]
        ELSE IF r.amount_due = 0 /\ r.paid = TRUE
        THEN [base EXCEPT !.fully_paid = Append(@, restored)]
        ELSE base

\* The classification of one receivable after its while loop: st is the
\* state of the call so far, f the frame the loop ended in.
Classify(st, f, original_amounts) ==
    LET r == f.receivable
        new_receivable == NewResidual(r, st.ids \cup Ids(st.residual))
        restored == RestoreOriginal(r, original_amounts)
        base == [st EXCEPT !.payments = f.payments,
                           !.payment_index = f.payment_index,
                           !.log = f.log]
    IN  IF r.amount_due > 0 /\ f.tried_processing
        THEN [base EXCEPT
                !.residual = Append(@, new_receivable),
                !.partially_paid = Append(@, [restored EXCEPT !.paid = TRUE])]
        ELSE IF r.amount_due > 0 /\ ~f.tried_processing
        THEN [base EXCEPT !.not_paid = Append(@, r)]
        ELSE IF r.amount_due = 0 /\ r.paid = TRUE
        THEN [base EXCEPT !.fully_paid = Append(@, restored)]
        ELSE base

\* for receivable in accounts_receivables: ...
RECURSIVE ForLoop(_, _, _)
ForLoop(todo, st, original_amounts) ==
    IF todo = <<>> THEN st
    ELSE LET f == WhileLoop([receivable |-> Head(todo),
                             payments |-> st.payments,
                             payment_index |-> st.payment_index,
                             tried_processing |-> FALSE,
                             log |-> st.log])
         IN  ForLoop(Tail(todo), Classify(st, f, original_amounts),
                     original_amounts)

\* Mutant: no early return on an empty payment list.
process_accounts_receivables_NoEarlyReturn(accounts_receivables, payments) ==
    LET sorted == SortByInsertedAtDesc(accounts_receivables)
    IN  ForLoop(sorted,
                [residual |-> <<>>, not_paid |-> <<>>,
                 partially_paid |-> <<>>, fully_paid |-> <<>>,
                 payments |-> payments, payment_index |-> 0,
                 ids |-> Ids(sorted), log |-> <<>>],
                OriginalAmounts(sorted))

\* process_accounts_receivables(accounts_receivables, payments): the four
\* lists it returns, and the payment list as the call leaves it (the
\* payments are mutated in place).
process_accounts_receivables(accounts_receivables, payments) ==
    LET sorted == SortByInsertedAtDesc(accounts_receivables)
        original_amounts == OriginalAmounts(sorted)
        start == [residual |-> <<>>, not_paid |-> <<>>,
                  partially_paid |-> <<>>, fully_paid |-> <<>>,
                  payments |-> payments, payment_index |-> 0,
                  ids |-> Ids(sorted), log |-> <<>>]
    IN  IF payments = <<>>
        THEN [start EXCEPT !.not_paid = sorted]
        ELSE ForLoop(sorted, start, original_amounts)

\* "if len(residual) <= 2:", the guard under which
\* apply_payments_for_an_account stores the residuals.
ResidualGuard(residual) == Len(residual) <= 2

(* ------------------------ filter_for_new_items ------------------------- *)

\* Mutant: the statement date is left out of the comparison.
_compare_ar_pair_IgnoresStatementDate(_ar, _ars) ==
    \E i \in 1..Len(_ars) :
        /\ _ar.account_id = _ars[i].account_id
        /\ _ar.charge_type = _ars[i].charge_type
        /\ _ar.charge_type # "OTHER"

\* Mutant: charges of kind OTHER are compared like the others.
_compare_ar_pair_ComparesOther(_ar, _ars) ==
    \E i \in 1..Len(_ars) :
        /\ _ar.account_id = _ars[i].account_id
        /\ _ar.charge_type = _ars[i].charge_type
        /\ _ar.statement_date = _ars[i].statement_date

\* _compare_ar_pair(_ar, _ars): some receivable of _ars has the account, the
\* charge type and the statement date of _ar, and _ar is not of kind OTHER.
_compare_ar_pair(_ar, _ars) ==
    \E i \in 1..Len(_ars) :
        /\ _ar.account_id = _ars[i].account_id
        /\ _ar.charge_type = _ars[i].charge_type
        /\ _ar.statement_date = _ars[i].statement_date
        /\ _ar.charge_type # "OTHER"

\* list.pop(i), i counted from 0.
Pop(s, i) == [k \in 1..(Len(s) - 1) |-> IF k <= i THEN s[k] ELSE s[k + 1]]

\* for i in idxs: _receivables_list.pop(i)
RECURSIVE PopEach(_, _)
PopEach(s, idxs) ==
    IF idxs = <<>> THEN s ELSE PopEach(Pop(s, Head(idxs)), Tail(idxs))

\* reversed(s)
Reversed(s) == [k \in 1..Len(s) |-> s[Len(s) + 1 - k]]

\* to_pop: the 0-based positions of the duplicates, ascending.
RECURSIVE ToPop(_, _, _)
ToPop(_receivables_list, _outstanding, idx) ==
    IF idx >= Len(_receivables_list) THEN <<>>
    ELSE (IF _compare_ar_pair(_receivables_list[idx + 1], _outstanding)
          THEN <<idx>> ELSE <<>>)
         \o ToPop(_receivables_list, _outstanding, idx + 1)

\* Mutant: only the first duplicate found is popped.
_check_duplicate_PopsFirstOnly(_receivables_list, _outstanding) ==
    IF _receivables_list = <<>> \/ _outstanding = <<>>
    THEN _receivables_list
    ELSE LET to_pop == ToPop(_receivables_list, _outstanding, 0)
         IN  IF to_pop = <<>> THEN _receivables_list
             ELSE Pop(_receivables_list, Head(to_pop))

\* _check_duplicate(_receivables_list, _outstanding): the list as the call
\* leaves it (the duplicates are popped in place).
_check_duplicate(_receivables_list, _outstanding) ==
    IF _receivables_list = <<>> \/ _outstanding = <<>>
    THEN _receivables_list
    ELSE PopEach(_receivables_list,
                 Reversed(ToPop(_receivables_list, _outstanding, 0)))

\* filter_for_new_items(outstanding, rents, storages, new_late_fees, waters),
\* every argument a list: "for receivables in [rents, storages,
\* new_late_fees, waters]: _check_duplicate(receivables, outstanding)".
filter_for_new_items(outstanding, rents, storages, new_late_fees, waters) ==
    [rents |-> _check_duplicate(rents, outstanding),
     storages |-> _check_duplicate(storages, outstanding),
     new_late_fees |-> _check_duplicate(new_late_fees, outstanding),
     waters |-> _check_duplicate(waters, outstanding)]

\* Four empty candidate lists.
NoLists == [rents |-> <<>>, storages |-> <<>>, new_late_fees |-> <<>>,
            waters |-> <<>>]

(* ----------------------- optional values, None ------------------------- *)

\* An Optional value: None is the empty tuple, a value v the tuple <<v>>.
None == <<>>

Some(v) == <<v>>

\* Python's truth value of an Optional number: None and 0 are false.
Truthy(o) == o # None /\ o[1] # 0

\* The truth value of an Optional date or UUID: only None is false.
Given(o) == o # None

\* What a function returns that may fall off its end: None, or a list.
NoneReturned == [is_none |-> TRUE, items |-> <<>>]

ListReturned(s) == [is_none |-> FALSE, items |-> s]

(* ------------------------------ records -------------------------------- *)

\* lot_id of an account with no lot assigned.
NoLot == "None"

Account(id, lot_id, rental_rate_override, storage_count) ==
    [id |-> id, lot_id |-> lot_id,
     rental_rate_override |-> rental_rate_override,
     storage_count |-> storage_count]

\* A water usage record; constructing one runs no validation (table model).
WaterUsage(previous_reading, current_reading) ==
    [previous_reading |-> previous_reading, current_reading |-> current_reading]

\* A rate is a fraction num / den.
Rate(num, den) == [num |-> num, den |-> den]

InvoiceSetting(rent, storage, water, fee, late, cutoff) ==
    [rent_monthly_rate |-> rent, storage_monthly_rate |-> storage,
     water_monthly_rate |-> water, water_service_fee |-> fee,
     late_fee_rate |-> late, overdue_cutoff_days |-> cutoff]

\* WaterUsage.water_bill_dollar_amount: round(usage * rate + fee, 2).
water_bill_dollar_amount(usage, water_rate, service_fee) ==
    Round2((usage.current_reading - usage.previous_reading) * water_rate.num
               + service_fee * water_rate.den,
           water_rate.den)

(* ---------------------- incur_recurring_charges ------------------------ *)

\* _get_acct_id: the account itself for RENT and STORAGE, the first member
\* of the (account id, water usage) pair for WATER.
_get_acct_id(_i, charge_type) ==
    IF charge_type \in {"RENT", "STORAGE"} THEN _i.id ELSE _i[1]

\* Mutant: rent is charged whether or not a lot is assigned.
_calculate_amount_due_IgnoresLot(_i, charge_type, config) ==
    IF charge_type = "RENT"
    THEN IF Truthy(_i.rental_rate_override)
         THEN _i.rental_rate_override[1] ELSE config.rent_monthly_rate
    ELSE IF charge_type = "STORAGE"
    THEN IF _i.storage_count # 0
         THEN _i.storage_count * config.storage_monthly_rate ELSE 0
    ELSE water_bill_dollar_amount(_i[2], config.water_monthly_rate,
                                  config.water_service_fee)

\* _calculate_amount_due: "rental_rate_override if rental_rate_override else
\* rent_monthly_rate" goes by the truth value of the override.
_calculate_amount_due(_i, charge_type, config) ==
    IF charge_type = "RENT"
    THEN IF _i.lot_id = NoLot THEN 0
         ELSE IF Truthy(_i.rental_rate_override)
              THEN _i.rental_rate_override[1] ELSE config.rent_monthly_rate
    ELSE IF charge_type = "STORAGE"
    THEN IF _i.storage_count # 0
         THEN _i.storage_count * config.storage_monthly_rate ELSE 0
    ELSE water_bill_dollar_amount(_i[2], config.water_monthly_rate,
                                  config.water_service_fee)

\* The list comprehension "inserts": one receivable per member of input_list
\* whose amount is not 0, in the order of input_list.  The receivables get
\* ids no receivable in `used` bears and are stamped in the order they are
\* made (inserted_at defaults to the time of construction).
Inserts(input_list, charge_type, statement_date, config, used) ==
    LET charged == SelectSeq(input_list,
                       LAMBDA i : _calculate_amount_due(i, charge_type, config) # 0)
    IN  [k \in 1..Len(charged) |->
            AccountsReceivable(MaxOf(used) + k,
                               _get_acct_id(charged[k], charge_type),
                               _calculate_amount_due(charged[k], charge_type, config),
                               statement_date, charge_type, FALSE, NoDetails,
                               MaxOf(used) + k)]

\* incur_recurring_charges(input_list, charge_type, statement_date, config):
\* "if not len(input_list): return" returns None.
incur_recurring_charges(input_list, charge_type, statement_date, config, used) ==
    IF Len(input_list) = 0 THEN NoneReturned
    ELSE ListReturned(Inserts(input_list, charge_type, statement_date, config, used))

(* --------------------------- incur_late_fee ---------------------------- *)

\* The days hard-coded in the comparison "statement_date + timedelta(days=10)
\* <= processing_date".
LateFeeDays == 10

\* The condition of the comprehension: "not processing_date or
\* overdue.statement_date + timedelta(days=10) <= processing_date".
IsPastDue(overdue, processing_date) ==
    \/ processing_date = None
    \/ overdue.statement_date + LateFeeDays <= processing_date[1]

\* details = {"original_item_id": str(overdue.id)}
LateFeeDetails(id) == [key |-> "original_item_id", ref |-> id]

\* The residuals of one allocation call, their ids (uuid4) made distinct from
\* every id in `used`.
WithFreshIds(residual, used) ==
    [k \in 1..Len(residual) |-> [residual[k] EXCEPT !.id = MaxOf(used) + k]]

\* Mutant: the late fee is computed on the amount the item had before the
\* payments were applied.
StillOverdue_OriginalAmounts(out, used) ==
    out.not_paid \o out.partially_paid

\* still_overdue = not_paid + residuals
StillOverdue(out, used) ==
    out.not_paid \o WithFreshIds(out.residual, used)

\* The late fee of one still overdue item.
LateFee(overdue, config, statement_date, id) ==
    AccountsReceivable(id, overdue.account_id,
                       Round2(overdue.amount_due * config.late_fee_rate.num,
                              config.late_fee_rate.den),
                       statement_date, "LATEFEE", FALSE,
                       LateFeeDetails(overdue.id), id)

\* incur_late_fee(overdue_items, config, statement_date, processing_date,
\* payments): the late fees (inserts), with what the allocation call it makes
\* returned and the payment list as that call left it.
incur_late_fee(overdue_items, config, statement_date, processing_date, payments, used) ==
    LET out == process_accounts_receivables(overdue_items, payments)
        still_overdue == StillOverdue(out, used \cup Ids(overdue_items))
        charged == SelectSeq(still_overdue,
                             LAMBDA o : IsPastDue(o, processing_date))
        first == MaxOf(used \cup Ids(overdue_items) \cup Ids(still_overdue))
    IN  [inserts |-> [k \in 1..Len(charged) |->
                         LateFee(charged[k], config, statement_date, first + k)],
         still_overdue |-> still_overdue,
         allocation |-> out,
         payments |-> out.payments]

(* ------------------------- the stored rows ----------------------------- *)

\* A stored water usage: the reading of the meter of an account's lot for a
\* statement date.
StoredWaterUsage(account_id, statement_date, usage) ==
    [account_id |-> account_id, statement_date |-> statement_date,
     usage |-> usage]

\* get_receivables_for_statement_date: the rows of the statement date, and
\* every unpaid row of any date.
get_receivables_for_statement_date(rows, statement_date) ==
    SelectSeq(rows, LAMBDA r : r.statement_date = statement_date \/ r.paid = FALSE)

\* get_receivables_by_charge_type, processing_date an Optional; the callers
\* leave is_paid out, and a statement date is always given.
get_receivables_by_charge_type(rows, charge_type, statement_date, processing_date) ==
    SelectSeq(rows, LAMBDA r :
        /\ r.charge_type = charge_type
        /\ r.statement_date = statement_date
        /\ processing_date # None => r.statement_date <= processing_date[1])

\* get_water_usages_for_statement_date: (account id, water usage) pairs.
get_water_usages_for_statement_date(water_usages, statement_date) ==
    LET found == SelectSeq(water_usages,
                           LAMBDA w : w.statement_date = statement_date)
    IN  [k \in 1..Len(found) |-> <<found[k].account_id, found[k].usage>>]

\* get_available_payments(account_id, processing_date)
get_available_payments(pays, account_id, processing_date) ==
    SelectSeq(pays, LAMBDA p :
        /\ p.amount > p.amount_applied
        /\ p.beneficiary_account_id = account_id
        /\ p.payment_received <= processing_date)

\* get_new_overdue_receivables: the unpaid rows, late fees apart, dated at
\* least `days` days before current_date, that no stored late fee names as
\* its original item.
get_new_overdue_receivables(rows, current_date, days) ==
    LET late_fee_subquery ==
            {r.details.ref : r \in {x \in Range(rows) : x.charge_type = "LATEFEE"}}
    IN  SelectSeq(rows, LAMBDA r :
            /\ r.statement_date + days <= current_date
            /\ r.charge_type # "LATEFEE"
            /\ r.paid = FALSE
            /\ r.id \notin late_fee_subquery)

(* --------------------------- incur_new_charges ------------------------- *)

\* A database session: the stored rows as the session holds them (rows it
\* loaded and changed are written at commit), and the last id handed out.
\* What a function working on a session hands back: whether it raised
\* TypeError, the value it returned, and the session as it left it.
Returned(value, session) ==
    [raised |-> FALSE, value |-> value, session |-> session]

RaisedTypeError(session) ==
    [raised |-> TRUE, value |-> NoneReturned, session |-> session]

IdsTo(n) == 1..n

\* The charges a call of incur_recurring_charges returned, and the session
\* with the ids they took.
Charged(charges, session) ==
    Returned(charges, [session EXCEPT !.last_id = @ + Len(charges.items)])

\* The rows with those of `changed` put in place of the rows of the same id.
WithChanged(rows, changed) ==
    [k \in 1..Len(rows) |->
        IF \E c \in Range(changed) : c.id = rows[k].id
        THEN CHOOSE c \in Range(changed) : c.id = rows[k].id
        ELSE rows[k]]

\* "late_fees += incur_late_fee(...)": incur_late_fee changes the overdue
\* items it covers in place; those loaded from the session stay in it and
\* are written at commit.
WithLateFees(st, loaded, fees) ==
    [late_fees |-> st.late_fees \o fees.inserts,
     session |-> [st.session EXCEPT
         !.last_id = MaxOf({@} \cup Ids(fees.still_overdue) \cup Ids(fees.inserts)),
         !.receivables =
             IF loaded
             THEN WithChanged(@, fees.allocation.fully_paid
                                     \o fees.allocation.partially_paid)
             ELSE @]]

\* "for acct in accounts": the available payments of the account received
\* by the end of the grace period are taken out of the session (expunge) and
\* its overdue items are run through incur_late_fee with them.
RECURSIVE LateFeeLoop(_, _, _)
LateFeeLoop(accounts, c, st) ==
    IF accounts = <<>> THEN st
    ELSE LateFeeLoop(Tail(accounts), c,
             WithLateFees(st, c.loaded,
                 incur_late_fee(
                     SelectSeq(c.initially_overdues,
                               LAMBDA i : i.account_id = Head(accounts).id),
                     c.setting, c.statement_date, Some(c.processing_date),
                     get_available_payments(
                         st.session.payments, Head(accounts).id,
                         c.statement_date + c.setting.overdue_cutoff_days - 1),
                     IdsTo(st.session.last_id))))

\* "initially_overdues += incur_recurring_charges(...)": adding None to a
\* list raises TypeError, which `more` being None stands for from then on.
Added(initially_overdues, more) ==
    IF initially_overdues.is_none \/ more.is_none THEN NoneReturned
    ELSE ListReturned(initially_overdues.items \o more.items)

\* The charges of the statement date computed anew as the overdue items:
\* RENT, then STORAGE, then WATER, each added to the list so far.
AddedKind(initially_overdues, input_list, charge_type, setting, statement_date, session) ==
    Added(initially_overdues,
          incur_recurring_charges(input_list, charge_type, statement_date,
              setting, IdsTo(session.last_id + Len(initially_overdues.items))))

NewlyOverdue(accounts, setting, statement_date, session) ==
    AddedKind(
        AddedKind(
            AddedKind(ListReturned(<<>>), accounts, "RENT", setting,
                      statement_date, session),
            accounts, "STORAGE", setting, statement_date, session),
        get_water_usages_for_statement_date(session.water_usages, statement_date),
        "WATER", setting, statement_date, session)

\* The late fees of all accounts on the overdue items given.
LateFeesOn(initially_overdues, loaded, accounts, setting, statement_date, processing_date, session) ==
    LateFeeLoop(accounts,
                [initially_overdues |-> initially_overdues.items,
                 loaded |-> loaded, setting |-> setting,
                 statement_date |-> statement_date,
                 processing_date |-> processing_date],
                [late_fees |-> <<>>,
                 session |-> [session EXCEPT
                     !.last_id = @ + (IF loaded THEN 0
                                      ELSE Len(initially_overdues.items))]])

LateFeesReturned(st) == Returned(ListReturned(st.late_fees), st.session)

\* The LATEFEE branch of incur_new_charges.
incur_new_late_fees(accounts, setting, statement_date, processing_date, session) ==
    IF processing_date >= statement_date + setting.overdue_cutoff_days
    THEN IF get_receivables_by_charge_type(session.receivables, "RENT",
                 statement_date, Some(processing_date)) = <<>>
         THEN IF NewlyOverdue(accounts, setting, statement_date, session).is_none
              THEN RaisedTypeError(session)
              ELSE LateFeesReturned(
                       LateFeesOn(NewlyOverdue(accounts, setting,
                                               statement_date, session),
                                  FALSE, accounts, setting, statement_date,
                                  processing_date, session))
         ELSE LateFeesReturned(
                  LateFeesOn(ListReturned(get_new_overdue_receivables(
                                 session.receivables, processing_date,
                                 setting.overdue_cutoff_days)),
                             TRUE, accounts, setting, statement_date,
                             processing_date, session))
    ELSE Returned(ListReturned(<<>>), session)

\* incur_new_charges(charge_type, accounts, setting, statement_date,
\* processing_date, session); a kind none of the branches names (OTHER)
\* falls off the end, returning None.
incur_new_charges(charge_type, accounts, setting, statement_date, processing_date, session) ==
    IF charge_type \in {"RENT", "STORAGE"}
    THEN Charged(incur_recurring_charges(accounts, charge_type,
                     statement_date, setting, IdsTo(session.last_id)),
                 session)
    ELSE IF charge_type = "WATER"
    THEN IF get_water_usages_for_statement_date(session.water_usages,
                                                statement_date) = <<>>
         THEN Returned(NoneReturned, session)
         ELSE Charged(incur_recurring_charges(
                          get_water_usages_for_statement_date(
                              session.water_usages, statement_date),
                          charge_type, statement_date, setting,
                          IdsTo(session.last_id)),
                      session)
    ELSE IF charge_type = "LATEFEE"
    THEN incur_new_late_fees(accounts, setting, statement_date,
                             processing_date, session)
    ELSE Returned(NoneReturned, session)

(* ------------------ get_monthly_charges, add_monthly_charges ----------- *)

\* "if not charges: charges = incur_new_charges(...)"
StoredOrNew(charges, charge_type, accounts, setting, statement_date, processing_date, session) ==
    IF charges # <<>> THEN Returned(ListReturned(charges), session)
    ELSE incur_new_charges(charge_type, accounts, setting, statement_date,
                           processing_date, session)

\* _get_receivables_or_incur_new_charges: the stored charges of the kind
\* and statement date when there are any, newly incurred ones otherwise.
_get_receivables_or_incur_new_charges(charge_type, accounts, setting, statement_date, processing_date, session) ==
    StoredOrNew(get_receivables_by_charge_type(session.receivables,
                    charge_type, statement_date, None),
                charge_type, accounts, setting, statement_date,
                processing_date, session)

\* "for i in models.ChargeTypes": the kinds in the order the enumeration
\* declares them.
ChargeTypesInOrder == <<"LATEFEE", "WATER", "STORAGE", "RENT", "OTHER">>

\* ars[i] = _get_receivables_or_incur_new_charges(i, ...)
WithKind(st, i, got) ==
    [raised |-> got.raised, ars |-> [st.ars EXCEPT ![i] = got.value],
     session |-> got.session]

\* get_receivables_or_incur_new_charges: ars[i] for every kind i; st holds
\* ars so far and the session.  A TypeError raised on the way ends the loop.
RECURSIVE ChargesByKind(_, _, _)
ChargesByKind(kinds, c, st) ==
    IF kinds = <<>> \/ st.raised THEN st
    ELSE ChargesByKind(Tail(kinds), c,
             WithKind(st, Head(kinds),
                 _get_receivables_or_incur_new_charges(
                     Head(kinds), c.accounts, c.setting, c.statement_date,
                     c.processing_date, st.session)))

get_receivables_or_incur_new_charges(accounts, setting, statement_date, processing_date, session) ==
    ChargesByKind(ChargeTypesInOrder,
                  [accounts |-> accounts, setting |-> setting,
                   statement_date |-> statement_date,
                   processing_date |-> processing_date],
                  [raised |-> FALSE,
                   ars |-> [i \in ChargeTypes |-> NoneReturned],
                   session |-> session])

\* "if rents is None: rents = []" and the like in filter_for_new_items.
NoneToEmpty(x) == IF x.is_none THEN <<>> ELSE x.items

\* The new rents, storages, late fees and waters: the charges by kind with
\* the stored duplicates filtered out.
NewItems(receivables_in_db, stmt_receivables) ==
    [raised |-> stmt_receivables.raised,
     ars |-> stmt_receivables.ars,
     new |-> IF stmt_receivables.raised THEN NoLists
             ELSE filter_for_new_items(
                      receivables_in_db,
                      NoneToEmpty(stmt_receivables.ars["RENT"]),
                      NoneToEmpty(stmt_receivables.ars["STORAGE"]),
                      NoneToEmpty(stmt_receivables.ars["LATEFEE"]),
                      NoneToEmpty(stmt_receivables.ars["WATER"])),
     session |-> stmt_receivables.session]

\* get_monthly_charges in write mode.
get_monthly_charges(setting, statement_date, processing_date, session) ==
    NewItems(get_receivables_for_statement_date(session.receivables,
                                                statement_date),
             get_receivables_or_incur_new_charges(
                 session.accounts, setting, statement_date, processing_date,
                 session))

\* The try block of add_monthly_charges: the four lists are inserted and the
\* session is committed, which also writes the rows the late-fee computation
\* changed.  The lists are never None here, so the "except TypeError" answer
\* is not given.
Inserted(new) ==
    new.rents \o new.storages \o new.new_late_fees \o new.waters

Committed(got, session) ==
    IF got.raised
    THEN [outcome |-> "TypeError", new_charges_count |-> 0,
          inserted |-> <<>>, ars |-> got.ars, session |-> session]
    ELSE [outcome |-> "count", new_charges_count |-> Len(Inserted(got.new)),
          inserted |-> Inserted(got.new), ars |-> got.ars,
          session |-> [got.session EXCEPT
                          !.receivables = @ \o Inserted(got.new)]]

\* add_monthly_charges: the outcome of the request and the rows stored after
\* it.  A TypeError raised by get_monthly_charges is outside the try block:
\* it ends the request and nothing is committed.
add_monthly_charges(setting, statement_date, processing_date, session) ==
    Committed(get_monthly_charges(setting, statement_date, processing_date,
                                  session),
              session)

(* --------------------------- applying payments ------------------------ *)

\* get_unpaid_items_query(account_id, processing_date=...): the unpaid rows
\* of the account, those of a statement date after the processing date left
\* out when one is given.
get_unpaid_items_query(rows, account_id, processing_date) ==
    SelectSeq(rows, LAMBDA r :
        /\ ~r.paid
        /\ r.account_id = account_id
        /\ Given(processing_date) => r.statement_date <= processing_date[1])

\* The arrangements of the elements of s (all different).
Arrangements(s) ==
    {t \in [1..Len(s) -> Range(s)] : Range(t) = Range(s)}

\* get_unpaid_receivables for an account: the rows of the query, latest
\* inserted first (order_by inserted_at desc); rows inserted at the same
\* moment come in any order.
get_unpaid_receivables(rows, account_id, processing_date) ==
    {t \in Arrangements(get_unpaid_items_query(rows, account_id, processing_date)) :
        \A i, j \in 1..Len(t) : i < j => t[i].inserted_at >= t[j].inserted_at}

\* get_available_payments_query: the payments of the account with something
\* left, those received after the processing date left out when one is given.
get_available_payments_query(pays, account_id, processing_date) ==
    SelectSeq(pays, LAMBDA p :
        /\ p.amount > p.amount_applied
        /\ p.beneficiary_account_id = account_id
        /\ Given(processing_date) => p.payment_received <= processing_date[1])

\* get_available_payments as apply_payments_for_an_account calls it: the
\* query has no order_by, the payments come in any order.
AvailablePayments(pays, account_id, processing_date) ==
    Arrangements(get_available_payments_query(pays, account_id, processing_date))

\* Mutant: the amounts applied to the payments are not written.
CommitPayments_NotWritten(pays, changed) == pays

\* The payments were loaded from the session and changed in place: the
\* commit writes them.
CommitPayments(pays, changed) == WithChanged(pays, changed)

\* The session after the write-mode branch: the residuals are added (under
\* the guard) and the commit writes, with them, the payments and the paid
\* receivables as the allocation left them; "ar.paid = True" then finds the
\* rows paid already.
PaymentsCommitted(session, out, residual) ==
    [session EXCEPT
        !.receivables =
            WithChanged(@, out.fully_paid \o out.partially_paid)
               \o (IF ResidualGuard(residual) THEN residual ELSE <<>>),
        !.payments = CommitPayments(@, out.payments),
        !.last_id = @ + Len(residual)]

\* The rest of apply_payments_for_an_account once the payments and the
\* receivables are loaded.
PaymentsApplied(session, available_payments, original_receivables, write_mode) ==
    LET out == process_accounts_receivables(original_receivables,
                                            available_payments)
        residual == WithFreshIds(out.residual, IdsTo(session.last_id))
    IN  [residual |-> residual,
         not_paid |-> out.not_paid,
         partial_paid |-> out.partially_paid,
         full_paid |-> out.fully_paid,
         session |-> IF write_mode
                     THEN PaymentsCommitted(session, out, residual)
                     ELSE session]

\* apply_payments_for_an_account(session, account_id, processing_date,
\* write_mode): what may come of it, one outcome for every order the rows
\* may be loaded in.
apply_payments_for_an_account(session, account_id, processing_date, write_mode) ==
    {PaymentsApplied(session, p, r, write_mode) :
        p \in AvailablePayments(session.payments, account_id, processing_date),
        r \in get_unpaid_receivables(session.receivables, account_id,
                                     processing_date)}

\* "for id in ids: apply_payments_for_an_account(...)": the sessions the
\* loop may end in.
RECURSIVE AppliedForAll(_, _, _, _)
AppliedForAll(ids, sessions, processing_date, write_mode) ==
    IF ids = <<>> THEN sessions
    ELSE AppliedForAll(
             Tail(ids),
             UNION {{o.session :
                        o \in apply_payments_for_an_account(
                                  s, Head(ids), processing_date, write_mode)} :
                    s \in sessions},
             processing_date, write_mode)

\* What a payment request hands back: nothing (None), a count of accounts,
\* or the lists by account of the read mode.
NoValue == [kind |-> "None", count |-> 0]

Count(n) == [kind |-> "count", count |-> n]

Output(n) == [kind |-> "output", count |-> n]

\* apply_payments_for_all: every active account in turn; None when there is
\* no active account.
apply_payments_for_all(session, processing_date, write_mode) ==
    LET ids == [k \in 1..Len(session.accounts) |-> session.accounts[k].id]
    IN  IF ids = <<>>
        THEN {[returned |-> NoValue, session |-> session]}
        ELSE {[returned |-> IF write_mode THEN Count(Len(ids))
                            ELSE Output(Len(ids)),
               session |-> s] :
                 s \in AppliedForAll(ids, {session}, processing_date,
                                     write_mode)}

\* process_payments_api: with an account_id the payments of the account are
\* applied and "return count" then reads a local name nothing was assigned
\* to (UnboundLocalError); without one, count is what apply_payments_for_all
\* returned.
process_payments_api(account_id, processing_date, session, write_mode) ==
    IF Given(account_id)
    THEN {[outcome |-> "UnboundLocalError", returned |-> NoValue,
           session |-> o.session] :
             o \in apply_payments_for_an_account(session, account_id[1],
                                                 processing_date, write_mode)}
    ELSE {[outcome |-> "returned", returned |-> r.returned,
           session |-> r.session] :
             r \in apply_payments_for_all(session, processing_date,
                                          write_mode)}

(* ---------------------- validation at construction --------------------- *)

\* AccountsReceivable.validate_amount_input: the check passes unless the
\* amount is negative and the kind is not OTHER.
validate_amount_input(r) == ~(r.amount_due < 0 /\ r.charge_type # "OTHER")

\* WaterUsage.check_water
check_water(u) == ~(u.current_reading < u.previous_reading)

\* The model validator of a model class.
ModelValidator(model, given) ==
    IF model = "AccountsReceivable" THEN validate_amount_input(given)
    ELSE check_water(given)

\* An object came of it, with the values given, or a validation error.
Built(given) == [outcome |-> "object", object |-> Some(given)]

ValidationError == [outcome |-> "ValidationError", object |-> None]

\* The class called with keyword arguments, models.AccountsReceivable(...):
\* both classes are table models (SQLModel, table=True), whose __init__ sets
\* the fields without running the validators.
Construct(model, given) == Built(given)

\* A request body parsed into the model (the parameter of an endpoint).  A
\* body the validators accept yields the object.  Whether the validators of
\* a table model run on a body depends on the SQLModel release installed,
\* which the repository does not fix: a body they would refuse is either
\* refused or made into the object as it is.
ParseBody(model, given) ==
    IF ModelValidator(model, given) THEN {Built(given)}
    ELSE {ValidationError, Built(given)}

(* ------------------------------ state ---------------------------------- *)

VARIABLES
    payments,     \* the caller's payment list, as the calls so far left it
    call,         \* the arguments of the last allocation call
    ret,          \* what that call returned
    outstanding,  \* the receivables already stored, as the filter is given them
    candidates,   \* the four candidate lists (rents, storages, new_late_fees,
                  \* waters), as the filter runs so far left them
    filter_log,   \* history: per run of the filter so far, the outstanding
                  \* list and the candidate lists as they were when it began
    issue,        \* the last call of incur_recurring_charges: its arguments
                  \* and what it returned
    late_fee,     \* the last call of incur_late_fee: its arguments and what
                  \* it returned
    built,        \* the last construction of a receivable or of a water
                  \* usage: what it was given and what came of it
    db,           \* the stored rows: accounts, water usages, receivables and
                  \* payments
    jobs,         \* history: per run of add_monthly_charges so far, its
                  \* arguments, the rows stored when it began and its outcome
    applied       \* history: per request to process_payments_api so far,
                  \* its arguments, the rows stored when it began and after it

vars == <<payments, call, ret, outstanding, candidates, filter_log, issue,
          late_fee, built, db, jobs, applied>>

allocVars == <<payments, call, ret>>

filterVars == <<outstanding, candidates, filter_log>>

chargeVars == <<issue, late_fee, built>>

jobVars == <<db, jobs, applied>>

NoCall == [made |-> FALSE, accounts_receivables |-> <<>>, payments |-> <<>>]

NoRet == process_accounts_receivables(<<>>, <<>>)

(* ------------------------------ inputs --------------------------------- *)

\* The charge kind of the receivables offered: a credit (negative amount)
\* can only be of kind OTHER; the others take the kind of their slot.
KindAt(i, amount_due) ==
    IF amount_due < 0 THEN "OTHER"
    ELSE IF i % 3 = 1 THEN "RENT" ELSE IF i % 3 = 2 THEN "WATER" ELSE "STORAGE"

\* The receivables a caller may hold at position i: unpaid, except that one
\* with nothing due may already be marked paid.
ReceivablesAt(i) ==
    {r \in {AccountsReceivable(i, "a1", amt, t, KindAt(i, amt), pd,
                               NoDetails, t) :
                amt \in (-1)..MaxAmount, t \in 1..MaxAR, pd \in BOOLEAN} :
        r.paid => r.amount_due = 0}

\* The lists a caller may hand over.  The engine only compares timestamps,
\* so the lists use the timestamps 1..k for some k, none left out; equal
\* timestamps and every order of them in the list occur.
ReceivableLists ==
    UNION {{s \in [1..n -> UNION {ReceivablesAt(i) : i \in 1..n}] :
               /\ \A i \in 1..n : s[i] \in ReceivablesAt(i)
               /\ \A i \in 1..n :
                     \/ s[i].inserted_at = 1
                     \/ \E j \in 1..n : s[j].inserted_at = s[i].inserted_at - 1}
           : n \in 0..MaxAR}

(* ------------------------------ actions -------------------------------- *)

NoIssue == [made |-> FALSE]

NoLateFee == [made |-> FALSE]

NothingBuilt == [made |-> FALSE]

EmptyDb == [accounts |-> <<>>, water_usages |-> <<>>, receivables |-> <<>>,
            payments |-> <<>>, last_id |-> 0]

Init ==
    /\ payments = <<>>
    /\ call = NoCall
    /\ ret = NoRet
    /\ outstanding = <<>>
    /\ candidates = NoLists
    /\ filter_log = <<>>
    /\ issue = NoIssue
    /\ late_fee = NoLateFee
    /\ built = NothingBuilt
    /\ db = EmptyDb
    /\ jobs = <<>>
    /\ applied = <<>>

\* submit_new_payment: the caller's list gains a payment of some amount.
SubmitPayment ==
    /\ ~call.made
    /\ Len(payments) < MaxPay
    /\ \E amt \in 1..MaxAmount :
          payments' = Append(payments,
                             Payment(Len(payments) + 1, "a1", amt, 1))
    /\ UNCHANGED <<call, ret>>
    /\ UNCHANGED <<filterVars, chargeVars, jobVars>>

\* One call of process_accounts_receivables on some receivables and the
\* caller's payment list.
Allocate ==
    /\ ~call.made
    /\ \E ars \in ReceivableLists :
          LET out == process_accounts_receivables(ars, payments)
          IN  /\ call' = [made |-> TRUE, accounts_receivables |-> ars,
                          payments |-> payments]
              /\ ret' = out
              /\ payments' = out.payments
    /\ UNCHANGED <<filterVars, chargeVars, jobVars>>

\* The caller is done with what the call returned; the payments stay as the
\* call left them.
Finish ==
    /\ call.made
    /\ call' = NoCall
    /\ ret' = NoRet
    /\ UNCHANGED payments
    /\ UNCHANGED <<filterVars, chargeVars, jobVars>>

Next == SubmitPayment \/ Allocate \/ Finish

Spec == Init /\ [][Next]_vars

(* --------------------- the duplicate filter at work -------------------- *)

StatementDates == {1, 2}

\* The kind of charge each candidate list is meant for.
ListKind ==
    [rents |-> "RENT", storages |-> "STORAGE", new_late_fees |-> "LATEFEE",
     waters |-> "WATER"]

\* What tells one receivable from another for the filter.
Keys(kinds, dates) ==
    [account_id : Accounts, charge_type : kinds, statement_date : dates]

\* The candidates are charges of the statement date being billed.
BilledDates == {1}

\* n receivables with the ids first + 1 .. first + n and the given keys.
Receivables(first, keys) ==
    [i \in 1..Len(keys) |->
        AccountsReceivable(first + i, keys[i].account_id, 1,
                           keys[i].statement_date, keys[i].charge_type,
                           FALSE, NoDetails, 1)]

\* The caller gets hold of the stored receivables and of the candidates:
\* each candidate list holds charges of its kind and one-off charges (OTHER)
\* of the billed statement date, the stored receivables are of any kind and
\* of that or another statement date, and no two receivables bear the same id.
LoadLists ==
    /\ filter_log = <<>>
    /\ candidates = NoLists
    /\ outstanding = <<>>
    /\ \E nr, ns, nl, nw \in 0..MaxCand, no \in 0..MaxOut :
          /\ nr + ns + nl + nw <= MaxCand
          /\ \E kr \in [1..nr -> Keys({ListKind.rents, "OTHER"}, BilledDates)],
                ks \in [1..ns -> Keys({ListKind.storages, "OTHER"}, BilledDates)],
                kl \in [1..nl -> Keys({ListKind.new_late_fees, "OTHER"}, BilledDates)],
                kw \in [1..nw -> Keys({ListKind.waters, "OTHER"}, BilledDates)],
                ko \in [1..no -> Keys(ChargeTypes, StatementDates)] :
                /\ candidates' =
                      [rents |-> Receivables(0, kr),
                       storages |-> Receivables(nr, ks),
                       new_late_fees |-> Receivables(nr + ns, kl),
                       waters |-> Receivables(nr + ns + nl, kw)]
                /\ outstanding' = Receivables(nr + ns + nl + nw, ko)
    /\ UNCHANGED filter_log
    /\ UNCHANGED <<allocVars, chargeVars, jobVars>>

\* One run of filter_for_new_items on the caller's lists.
FilterForNewItems ==
    /\ candidates # NoLists \/ outstanding # <<>>
    /\ Len(filter_log) < 2
    /\ filter_log' = Append(filter_log, [outstanding |-> outstanding,
                                         candidates |-> candidates])
    /\ candidates' = filter_for_new_items(outstanding, candidates.rents,
                                          candidates.storages,
                                          candidates.new_late_fees,
                                          candidates.waters)
    /\ UNCHANGED outstanding
    /\ UNCHANGED <<allocVars, chargeVars, jobVars>>

NextFilter == LoadLists \/ FilterForNewItems

SpecFilter == Init /\ [][NextFilter]_vars

(* ------------------------ charge issuance at work ---------------------- *)

\* Longest list of accounts (or of meter readings) handed to one issuance.
MaxAccounts == 2

\* The id of the account at each place of the list handed over.
AccountNames == <<"a1", "a2", "a3", "a4">>

LotIds == {NoLot, "lot1"}

\* Rent overrides: none, one of 0, one of 1.
RentOverrides == {None, Some(0), Some(1)}

StorageCounts == {0, 1, 2}

AccountsAt(i) ==
    {Account(AccountNames[i], l, o, c) :
        l \in LotIds, o \in RentOverrides, c \in StorageCounts}

AccountLists ==
    UNION {{s \in [1..n -> UNION {AccountsAt(i) : i \in 1..n}] :
               \A i \in 1..n : s[i] \in AccountsAt(i)}
           : n \in 0..MaxAccounts}

\* The rows of get_water_usage_query: (account id, water usage).
WaterUsagesAt(i) ==
    {<<AccountNames[i], WaterUsage(p, c)>> : p \in {0, 1}, c \in {1, 2}}

WaterUsageLists ==
    UNION {{s \in [1..n -> UNION {WaterUsagesAt(i) : i \in 1..n}] :
               \A i \in 1..n : s[i] \in WaterUsagesAt(i)}
           : n \in 0..MaxAccounts}

\* Rate configurations: rent 1 or 2, storage 3 a unit, water 1/2 a unit and
\* a service fee of 1, a late fee of 50 or 100 percent, a grace period of 5
\* or 10 days.
InvoiceSettings ==
    {InvoiceSetting(rent, 3, Rate(1, 2), 1, late, cutoff) :
        rent \in {1, 2}, late \in {Rate(1, 2), Rate(1, 1)}, cutoff \in {5, 10}}

\* Issuance reads the rent, storage and water rates only.
IssueSettings ==
    {c \in InvoiceSettings :
        c.late_fee_rate = Rate(1, 2) /\ c.overdue_cutoff_days = 10}

\* One call of incur_recurring_charges, no receivable existing yet.
IncurRecurringCharges ==
    /\ ~issue.made
    /\ \E charge_type \in {"RENT", "STORAGE", "WATER"}, config \in IssueSettings,
          statement_date \in StatementDates :
          \E input_list \in (IF charge_type = "WATER" THEN WaterUsageLists
                             ELSE AccountLists) :
             issue' = [made |-> TRUE, input_list |-> input_list,
                       charge_type |-> charge_type,
                       statement_date |-> statement_date, config |-> config,
                       ret |-> incur_recurring_charges(input_list, charge_type,
                                                       statement_date, config, {})]
    /\ UNCHANGED <<allocVars, filterVars, late_fee, built, jobVars>>

\* The caller drops what the call returned.
ForgetCharges ==
    /\ issue.made
    /\ issue' = NoIssue
    /\ UNCHANGED <<allocVars, filterVars, late_fee, built, jobVars>>

NextIssue == IncurRecurringCharges \/ ForgetCharges

SpecIssue == Init /\ [][NextIssue]_vars

(* ---------------------------- late fees at work ------------------------ *)

\* Longest list of overdue items handed to one late-fee computation.
MaxOverdue == 2

\* The day the late fees are processed, and the statement dates of the
\* overdue items: 12, 10 and 7 days before it.
ProcessingDay == 20

OverdueDates == {8, 10, 13}

\* Amounts of overdue items: charges of 1 and 2, and a credit of 1 (OTHER).
OverdueAmounts == {-1, 1, 2}

\* The overdue items a caller may hold at place i, unpaid, in the order they
\* were stored.
OverdueAt(i) ==
    {AccountsReceivable(i, AccountNames[(i % 2) + 1], amt, d, KindAt(i, amt),
                        FALSE, NoDetails, i) :
        amt \in OverdueAmounts, d \in OverdueDates}

OverdueLists ==
    UNION {{s \in [1..n -> UNION {OverdueAt(i) : i \in 1..n}] :
               \A i \in 1..n : s[i] \in OverdueAt(i)}
           : n \in 0..MaxOverdue}

\* The payments at hand: nothing of them applied yet.
PaymentLists ==
    UNION {{[i \in 1..n |-> Payment(i, "a1", amts[i], 1)] :
               amts \in [1..n -> 1..MaxAmount]}
           : n \in 0..MaxPay}

\* Late fees read the late fee rate and the grace period only.
LateFeeSettings == {c \in InvoiceSettings : c.rent_monthly_rate = 1}

\* One call of incur_late_fee.
IncurLateFee ==
    /\ ~late_fee.made
    /\ \E overdue_items \in OverdueLists, config \in LateFeeSettings,
          processing_date \in {None, Some(ProcessingDay)},
          pays \in PaymentLists :
          late_fee' = [made |-> TRUE, overdue_items |-> overdue_items,
                       config |-> config, statement_date |-> 1,
                       processing_date |-> processing_date,
                       payments |-> pays,
                       ret |-> incur_late_fee(overdue_items, config, 1,
                                              processing_date, pays, {})]
    /\ UNCHANGED <<allocVars, filterVars, issue, built, jobVars>>

\* The caller drops what the call returned.
ForgetLateFees ==
    /\ late_fee.made
    /\ late_fee' = NoLateFee
    /\ UNCHANGED <<allocVars, filterVars, issue, built, jobVars>>

NextLateFee == IncurLateFee \/ ForgetLateFees

SpecLateFee == Init /\ [][NextLateFee]_vars

(* ----------------------- the monthly job at work ----------------------- *)

\* Most accounts stored, most receivables and payments submitted by hand,
\* most runs of the monthly job.
MaxStoredAccounts == 2

MaxSubmitted == 1

MaxStoredPayments == 1

MaxJobs == 2

\* The statement date the job bills, and one of an earlier period.
JobStatementDate == 30

EarlierStatementDate == 1

\* The job is run 5 or 12 days after the statement date.
ProcessingDates == {35, 42}

\* The rate configuration in force: rent 1, storage 3 a unit, water 1/2 a
\* unit and a service fee of 1, a late fee of 100 percent, 10 days of grace.
JobSetting == InvoiceSetting(1, 3, Rate(1, 2), 1, Rate(1, 1), 10)

\* add_new_account: an active account, with or without a lot.
AddNewAccount ==
    /\ Len(db.accounts) < MaxStoredAccounts
    /\ \E l \in LotIds, c \in {0, 1} :
          db' = [db EXCEPT !.accounts =
                    Append(@, Account(AccountNames[Len(db.accounts) + 1], l,
                                      None, c))]
    /\ UNCHANGED <<allocVars, filterVars, chargeVars, jobs, applied>>

\* submit_new_watermeter_readings: the reading of the meter of an account's
\* lot for the billed statement date, one for a meter and statement date.
SubmitNewWatermeterReadings ==
    /\ \E k \in 1..Len(db.accounts) :
          /\ db.accounts[k].lot_id # NoLot
          /\ \A w \in Range(db.water_usages) : w.account_id # db.accounts[k].id
          /\ db' = [db EXCEPT !.water_usages =
                       Append(@, StoredWaterUsage(db.accounts[k].id,
                                                  JobStatementDate,
                                                  WaterUsage(0, 0)))]
    /\ UNCHANGED <<allocVars, filterVars, chargeVars, jobs, applied>>

\* The receivables submitted by hand so far: those the job did not insert.
Submitted ==
    SelectSeq(db.receivables,
              LAMBDA r : \A j \in 1..Len(jobs) : r \notin Range(jobs[j].inserted))

\* submit_new_receivable: a charge of 1 of kind OTHER or RENT for an account,
\* of the billed statement date or of an earlier one.
SubmitNewReceivable ==
    /\ Len(Submitted) < MaxSubmitted
    /\ \E k \in 1..Len(db.accounts), kind \in {"OTHER", "RENT"},
          d \in {EarlierStatementDate, JobStatementDate} :
          db' = [db EXCEPT
                    !.receivables =
                        Append(@, AccountsReceivable(db.last_id + 1,
                                      db.accounts[k].id, 1, d, kind, FALSE,
                                      NoDetails, db.last_id + 1)),
                    !.last_id = @ + 1]
    /\ UNCHANGED <<allocVars, filterVars, chargeVars, jobs, applied>>

\* submit_new_payment: a payment for an account, received on the statement
\* date.
SubmitNewPayment ==
    /\ Len(db.payments) < MaxStoredPayments
    /\ \E k \in 1..Len(db.accounts), amt \in 1..MaxAmount :
          db' = [db EXCEPT !.payments =
                    Append(@, Payment(Len(db.payments) + 1, db.accounts[k].id,
                                      amt, JobStatementDate))]
    /\ UNCHANGED <<allocVars, filterVars, chargeVars, jobs, applied>>

\* The request is over: the rows are as it left them, and the history gains
\* the request, the rows it found and what came of it.
Done(processing_date, done) ==
    /\ db' = done.session
    /\ jobs' = Append(jobs,
                  [statement_date |-> JobStatementDate,
                   processing_date |-> processing_date,
                   before |-> db,
                   ars |-> done.ars,
                   outcome |-> done.outcome,
                   new_charges_count |-> done.new_charges_count,
                   inserted |-> done.inserted,
                   after |-> done.session])

\* One request to add_monthly_charges for the billed statement date.
AddMonthlyCharges ==
    /\ Len(jobs) < MaxJobs
    /\ \E processing_date \in ProcessingDates :
          Done(processing_date,
               add_monthly_charges(JobSetting, JobStatementDate,
                                   processing_date, db))
    /\ UNCHANGED <<allocVars, filterVars, chargeVars, applied>>

NextJobs ==
    \/ AddNewAccount
    \/ SubmitNewWatermeterReadings
    \/ SubmitNewReceivable
    \/ SubmitNewPayment
    \/ AddMonthlyCharges

SpecJobs == Init /\ [][NextJobs]_vars

(* ------------------------ payments at work ----------------------------- *)

\* Most accounts, most receivables and most payments stored for applying
\* payments, and most requests to apply them.
MaxPayingAccounts == 2

MaxOwed == 2

MaxPaid == 2

MaxRuns == 2

\* The statement dates of the receivables submitted, the day the payments
\* are received and the processing dates asked for.
OwedStatementDates == {1, 2}

PaymentReceived == 1

PaymentProcessingDates == {None, Some(1)}

\* add_new_account: an active account; payments are applied whatever its
\* lot and its storages.
AddPayingAccount ==
    /\ Len(db.accounts) < MaxPayingAccounts
    /\ applied = <<>>
    /\ db' = [db EXCEPT !.accounts =
                 Append(@, Account(AccountNames[Len(db.accounts) + 1], NoLot,
                                   None, 0))]
    /\ UNCHANGED <<allocVars, filterVars, chargeVars, jobs, applied>>

\* submit_new_receivable: a charge for a stored account, of nothing or
\* more, or a credit (OTHER).
SubmitReceivableOwed ==
    /\ Len(db.receivables) < MaxOwed
    /\ applied = <<>>
    /\ \E k \in 1..Len(db.accounts), amt \in (-1)..MaxAmount,
          d \in OwedStatementDates :
          db' = [db EXCEPT
                    !.receivables =
                        Append(@, AccountsReceivable(db.last_id + 1,
                                      db.accounts[k].id, amt, d,
                                      IF amt < 0 THEN "OTHER" ELSE "RENT",
                                      FALSE, NoDetails, db.last_id + 1)),
                    !.last_id = @ + 1]
    /\ UNCHANGED <<allocVars, filterVars, chargeVars, jobs, applied>>

\* submit_new_payment: a payment for a stored account.
SubmitPaymentReceived ==
    /\ Len(db.payments) < MaxPaid
    /\ applied = <<>>
    /\ \E k \in 1..Len(db.accounts), amt \in 1..MaxAmount :
          db' = [db EXCEPT !.payments =
                    Append(@, Payment(Len(db.payments) + 1, db.accounts[k].id,
                                      amt, PaymentReceived))]
    /\ UNCHANGED <<allocVars, filterVars, chargeVars, jobs, applied>>

\* One request to process_payments_api, for an account or for all.
ProcessPaymentsApi ==
    /\ Len(applied) < MaxRuns
    /\ \E account_id \in {None} \cup {Some(a.id) : a \in Range(db.accounts)},
          processing_date \in PaymentProcessingDates, write_mode \in BOOLEAN :
          \E o \in process_payments_api(account_id, processing_date, db,
                                       write_mode) :
             /\ db' = o.session
             /\ applied' = Append(applied,
                              [account_id |-> account_id,
                               processing_date |-> processing_date,
                               write_mode |-> write_mode,
                               before |-> db,
                               outcome |-> o.outcome,
                               returned |-> o.returned,
                               after |-> o.session])
    /\ UNCHANGED <<allocVars, filterVars, chargeVars, jobs>>

NextPayments ==
    \/ AddPayingAccount
    \/ SubmitReceivableOwed
    \/ SubmitPaymentReceived
    \/ ProcessPaymentsApi

SpecPayments == Init /\ [][NextPayments]_vars

(* ----------------------- construction at work -------------------------- *)

\* The receivables and water usages one may ask for.
ReceivablesAsked ==
    {AccountsReceivable(1, a, amt, 1, kind, FALSE, NoDetails, 1) :
        a \in Accounts, amt \in (-MaxAmount)..MaxAmount, kind \in ChargeTypes}

WaterUsagesAsked == {WaterUsage(p, c) : p \in 0..MaxAmount, c \in 0..MaxAmount}

Asked(model) ==
    IF model = "AccountsReceivable" THEN ReceivablesAsked ELSE WaterUsagesAsked

\* A receivable or a water usage is constructed by calling its class, as
\* incur_recurring_charges, incur_late_fee and process_accounts_receivables
\* construct receivables.
ConstructObject ==
    /\ ~built.made
    /\ \E model \in {"AccountsReceivable", "WaterUsage"} :
          \E given \in Asked(model) :
             built' = [made |-> TRUE, model |-> model, route |-> "constructor",
                       given |-> given, got |-> Construct(model, given)]
    /\ UNCHANGED <<allocVars, filterVars, issue, late_fee, jobVars>>

\* submit_new_receivable, submit_new_watermeter_readings: the body of the
\* request is parsed into the model.
ParseRequestBody ==
    /\ ~built.made
    /\ \E model \in {"AccountsReceivable", "WaterUsage"} :
          \E given \in Asked(model) :
             \E got \in ParseBody(model, given) :
                built' = [made |-> TRUE, model |-> model, route |-> "request",
                          given |-> given, got |-> got]
    /\ UNCHANGED <<allocVars, filterVars, issue, late_fee, jobVars>>

\* The object, if any, is dropped.
ForgetBuilt ==
    /\ built.made
    /\ built' = NothingBuilt
    /\ UNCHANGED <<allocVars, filterVars, issue, late_fee, jobVars>>

NextBuild == ConstructObject \/ ParseRequestBody \/ ForgetBuilt

SpecBuild == Init /\ [][NextBuild]_vars

(* ------------------- vocabulary of the properties ---------------------- *)

\* The receivables and the payments the last call was made with.
In == call.accounts_receivables

PaymentsBefore == call.payments

SumApplied(ps) == SumSeq([i \in 1..Len(ps) |-> ps[i].amount_applied])

SumDue(s) == SumSeq([i \in 1..Len(s) |-> s[i].amount_due])

\* What one logged pass moved from the payment to the receivable.
Moved(e) == IF e.available >= e.due THEN e.due ELSE e.available

\* The logged passes that served the receivable of this id, and their total.
PassesOf(id) == {k \in 1..Len(ret.log) : ret.log[k].receivable = id}

MovedTo(id) ==
    SumSeq([k \in 1..Len(ret.log) |->
               IF ret.log[k].receivable = id THEN Moved(ret.log[k]) ELSE 0])

\* The payment list as it stood when logged pass k began.
PaymentsAt(k) == IF k = 1 THEN PaymentsBefore ELSE ret.log[k - 1].payments

\* Processing order of the engine, stated on the caller's list: the later
\* created receivable first, equal timestamps in the caller's order.
ProcessedBefore(i, j) ==
    \/ In[i].inserted_at > In[j].inserted_at
    \/ In[i].inserted_at = In[j].inserted_at /\ i < j

DistinctTimestamps ==
    \A i, j \in 1..Len(In) : i # j => In[i].inserted_at # In[j].inserted_at

Permutations(s) ==
    {t \in [1..Len(s) -> Range(s)] : Range(t) = Range(s)}

(* ------------------------------ C1 ------------------------------------- *)

\* C1: a call with an empty payment list returns every input receivable in
\* not_paid, amount_due and paid (and every other field) unchanged, and
\* returns empty residual, partially_paid and fully_paid lists.
C1_EmptyPaymentsAllNotPaid ==
    (call.made /\ PaymentsBefore = <<>>) =>
        /\ ret.residual = <<>>
        /\ ret.partially_paid = <<>>
        /\ ret.fully_paid = <<>>
        /\ Len(ret.not_paid) = Len(In)
        /\ Range(ret.not_paid) = Range(In)

\* A call without payments on two receivables, one of them with nothing or
\* less than nothing due, handed over in another order than they come back.
C1_Witness ==
    /\ call.made
    /\ PaymentsBefore = <<>>
    /\ Len(In) >= 2
    /\ \E i \in 1..Len(In) : In[i].amount_due <= 0
    /\ ret.not_paid # In

(* ------------------------------ C2 ------------------------------------- *)

\* C2: conservation.  On receivables with positive amount_due and payments
\* with amount_applied <= amount, the total growth of amount_applied equals
\* the original amount_due of the fully paid receivables plus, for the
\* partially paid ones, the original amount_due less the residual's.
C2_Conservation ==
    (/\ call.made
     /\ \A i \in 1..Len(In) : In[i].amount_due > 0
     /\ \A i \in 1..Len(PaymentsBefore) :
           PaymentsBefore[i].amount_applied <= PaymentsBefore[i].amount)
    => SumApplied(payments) - SumApplied(PaymentsBefore)
         = SumDue(ret.fully_paid)
           + (SumDue(ret.partially_paid) - SumDue(ret.residual))

\* A call that paid one receivable in full and another in part.
C2_Witness ==
    /\ call.made
    /\ \A i \in 1..Len(In) : In[i].amount_due > 0
    /\ ret.fully_paid # <<>>
    /\ ret.partially_paid # <<>>
    /\ SumApplied(payments) > SumApplied(PaymentsBefore)

(* ------------------------------ C3 ------------------------------------- *)

\* C3: starting from payments with 0 <= amount_applied <= amount, no payment
\* ever has amount_applied > amount: not between calls, not after any pass
\* of the loop of any call, however many calls follow one another.
C3_AppliedNeverExceedsAmount ==
    /\ \A i \in 1..Len(payments) :
          payments[i].amount_applied <= payments[i].amount
    /\ \A k \in 1..Len(ret.log) : \A i \in 1..Len(ret.log[k].payments) :
          ret.log[k].payments[i].amount_applied <= ret.log[k].payments[i].amount

\* A later call found a payment an earlier call had used in part, and
\* applied more of it.
C3_Witness ==
    /\ call.made
    /\ \E i \in 1..Len(PaymentsBefore) :
          /\ PaymentsBefore[i].amount_applied > 0
          /\ payments[i].amount_applied > PaymentsBefore[i].amount_applied

(* ------------------------------ C4 ------------------------------------- *)

\* The residuals the last call emitted for the receivable of this id.
ResidualsOf(id) ==
    {j \in 1..Len(ret.residual) : ret.residual[j].details = ResidualDetails(id)}

\* C4: partial payment.  A receivable some payment was applied to, and that
\* the payments did not cover, gets exactly one new residual: unpaid, of the
\* same account, charge kind and statement period, its amount_due the
\* original one less all that was applied.  The original comes back in
\* partially_paid with its original amount_due and paid = TRUE, and in
\* neither not_paid nor fully_paid.
C4_PartialPaymentResidual ==
    \A i \in 1..Len(In) :
        (call.made /\ PassesOf(In[i].id) # {} /\ MovedTo(In[i].id) < In[i].amount_due)
        => /\ Cardinality(ResidualsOf(In[i].id)) = 1
           /\ \A j \in ResidualsOf(In[i].id) :
                 /\ ret.residual[j].id \notin Ids(In)
                 /\ ret.residual[j].account_id = In[i].account_id
                 /\ ret.residual[j].charge_type = In[i].charge_type
                 /\ ret.residual[j].statement_date = In[i].statement_date
                 /\ ret.residual[j].paid = FALSE
                 /\ ret.residual[j].amount_due
                       = In[i].amount_due - MovedTo(In[i].id)
           /\ [In[i] EXCEPT !.paid = TRUE] \in Range(ret.partially_paid)
           /\ In[i].id \notin Ids(ret.not_paid) \cup Ids(ret.fully_paid)

\* A receivable of kind WATER, created in the second period, got a part of
\* what it owed and a residual for the rest.
C4_Witness ==
    /\ call.made
    /\ \E i \in 1..Len(In) :
          /\ PassesOf(In[i].id) # {}
          /\ MovedTo(In[i].id) < In[i].amount_due
          /\ In[i].charge_type = "WATER"
          /\ In[i].statement_date > 1
          /\ ResidualsOf(In[i].id) # {}

(* ------------------------------ C5 ------------------------------------- *)

\* The receivables (positions in the caller's list) that owe something and
\* are processed after the one at position i.
OwingAfter(i) ==
    {j \in 1..Len(In) : ProcessedBefore(i, j) /\ In[j].amount_due > 0}

\* The first of a non-empty set of positions in processing order.
FirstProcessed(S) == CHOOSE j \in S : \A m \in S \ {j} : ProcessedBefore(j, m)

PositionOf(id) == CHOOSE i \in 1..Len(In) : In[i].id = id

\* C5: full payment.  When a pass finds at least the receivable's remaining
\* amount_due available in the current payment, that payment's
\* amount_applied grows by exactly that amount_due, the receivable comes
\* back in fully_paid with paid = TRUE and its original amount_due, and what
\* is left of the payment is what the next owing receivable in processing
\* order finds available (or what the payment still has at the end).
C5_FullPayment ==
    \A k \in 1..Len(ret.log) :
        LET e == ret.log[k]
            i == PositionOf(e.receivable)
            left == e.available - e.due
        IN  (call.made /\ e.available >= e.due) =>
              /\ e.payments[e.payment].amount_applied
                    = PaymentsAt(k)[e.payment].amount_applied + e.due
              /\ [In[i] EXCEPT !.paid = TRUE] \in Range(ret.fully_paid)
              /\ In[i].id \notin Ids(ret.not_paid) \cup Ids(ret.partially_paid)
              /\ left > 0 =>
                    IF OwingAfter(i) = {}
                    THEN /\ k = Len(ret.log)
                         /\ payments[e.payment].amount
                               - payments[e.payment].amount_applied = left
                    ELSE /\ k < Len(ret.log)
                         /\ ret.log[k + 1].payment = e.payment
                         /\ ret.log[k + 1].available = left
                         /\ ret.log[k + 1].receivable
                               = In[FirstProcessed(OwingAfter(i))].id

\* A payment covered a receivable and had money left, which went to the
\* next receivable.
C5_Witness ==
    /\ call.made
    /\ \E k \in 1..Len(ret.log) :
          /\ ret.log[k].available > ret.log[k].due
          /\ k < Len(ret.log)
          /\ ret.log[k + 1].payment = ret.log[k].payment
          /\ ret.log[k + 1].receivable # ret.log[k].receivable

(* ------------------------------ C6 ------------------------------------- *)

\* C6: receivables are paid latest-created first.  Whenever a receivable
\* ends a call in not_paid or partially_paid, every receivable created
\* earlier that owes something ends in not_paid, untouched, and no payment
\* was applied to it.
C6_LatestCreatedPaidFirst ==
    \A i, j \in 1..Len(In) :
        (/\ call.made
         /\ In[i].id \in Ids(ret.not_paid) \cup Ids(ret.partially_paid)
         /\ In[j].inserted_at < In[i].inserted_at
         /\ In[j].amount_due > 0)
        => /\ In[j] \in Range(ret.not_paid)
           /\ PassesOf(In[j].id) = {}

\* Two receivables of the same amount and one payment of that amount, the
\* earlier-created receivable first in the caller's list: the later-created
\* one is fully paid, the earlier-created one is not paid.
C6_Witness ==
    /\ call.made
    /\ Len(In) = 2
    /\ In[1].amount_due = In[2].amount_due
    /\ In[1].amount_due > 0
    /\ In[1].inserted_at < In[2].inserted_at
    /\ SumApplied(payments) - SumApplied(PaymentsBefore) = In[2].amount_due
    /\ In[2].id \in Ids(ret.fully_paid)
    /\ In[1] \in Range(ret.not_paid)

(* ------------------------------ C7 ------------------------------------- *)

\* C7: for receivables with pairwise distinct creation timestamps, the call
\* returns the same four lists and leaves the same payments whatever the
\* order in which the caller lists the receivables.
C7_CallerOrderIrrelevant ==
    (call.made /\ DistinctTimestamps) =>
        \A p \in Permutations(In) :
            LET o == process_accounts_receivables(p, PaymentsBefore)
            IN  /\ o.residual = ret.residual
                /\ o.not_paid = ret.not_paid
                /\ o.partially_paid = ret.partially_paid
                /\ o.fully_paid = ret.fully_paid
                /\ o.payments = payments

\* Receivables with distinct timestamps, listed earliest first, of which
\* the payments reached one and not another.
C7_Witness ==
    /\ call.made
    /\ DistinctTimestamps
    /\ Len(In) >= 2
    /\ In[1].inserted_at < In[2].inserted_at
    /\ ret.log # <<>>
    /\ ret.not_paid # <<>>

(* ------------------- vocabulary of the filter properties --------------- *)

ListNames == {"rents", "storages", "new_late_fees", "waters"}

\* The outstanding list and the candidate lists the last run began with.
LastRun == filter_log[Len(filter_log)]

\* Same account, same charge kind, same statement period.
SameCharge(a, b) ==
    /\ a.account_id = b.account_id
    /\ a.charge_type = b.charge_type
    /\ a.statement_date = b.statement_date

(* ------------------------------ C8 ------------------------------------- *)

\* C8: given a non-empty outstanding list, the filter removes a candidate
\* of kind RENT, STORAGE, WATER or LATEFEE exactly when some outstanding
\* receivable has its account, its charge kind and its statement period;
\* every other candidate stays, in the order the candidates had, and the
\* outstanding list is as it was.
C8_DuplicateCriterion ==
    (filter_log # <<>> /\ LastRun.outstanding # <<>>) =>
        /\ \A l \in ListNames :
              LET Stays(c) ==
                      ~(/\ c.charge_type \in {"RENT", "STORAGE", "WATER", "LATEFEE"}
                        /\ \E k \in 1..Len(LastRun.outstanding) :
                              SameCharge(c, LastRun.outstanding[k]))
              IN  candidates[l] = SelectSeq(LastRun.candidates[l], Stays)
        /\ outstanding = LastRun.outstanding

\* Of two candidates of one list the filter removed the first, a duplicate
\* of the outstanding receivable, and kept the second, a charge of the same
\* kind and period for another account.
C8_Witness ==
    /\ Len(filter_log) = 1
    /\ LastRun.outstanding # <<>>
    /\ \E l \in ListNames :
          /\ Len(LastRun.candidates[l]) = 2
          /\ candidates[l] = <<LastRun.candidates[l][2]>>
          /\ LastRun.candidates[l][2].charge_type # "OTHER"
          /\ LastRun.candidates[l][2].charge_type
                = LastRun.candidates[l][1].charge_type

(* ------------------------------ C9 ------------------------------------- *)

\* C9: the filter is idempotent.  Run again on the lists its first run left,
\* with the same outstanding list, it removes nothing more.
C9_FilterIdempotent ==
    Len(filter_log) = 2 =>
        /\ filter_log[2].outstanding = filter_log[1].outstanding
        /\ candidates = filter_log[2].candidates

\* The filter ran twice; its first run had removed a candidate and left
\* another.
C9_Witness ==
    /\ Len(filter_log) = 2
    /\ filter_log[2].candidates # filter_log[1].candidates
    /\ filter_log[2].candidates # NoLists

(* ------------------------------ C10 ------------------------------------ *)

\* C10: a candidate of kind OTHER is never removed, whatever the
\* outstanding list holds.
C10_OtherNeverDeduplicated ==
    filter_log # <<>> =>
        \A l \in ListNames : \A i \in 1..Len(LastRun.candidates[l]) :
            LastRun.candidates[l][i].charge_type = "OTHER"
            => LastRun.candidates[l][i] \in Range(candidates[l])

\* Two OTHER candidates alike but for their id, and an outstanding OTHER
\* receivable of the same account and statement period: both stayed.
C10_Witness ==
    /\ Len(filter_log) = 1
    /\ \E l \in ListNames :
          /\ Len(LastRun.candidates[l]) = 2
          /\ LastRun.candidates[l][1].charge_type = "OTHER"
          /\ LastRun.candidates[l][2]
                = [LastRun.candidates[l][1] EXCEPT
                      !.id = LastRun.candidates[l][2].id]
          /\ \E k \in 1..Len(LastRun.outstanding) :
                SameCharge(LastRun.candidates[l][1], LastRun.outstanding[k])
          /\ candidates[l] = LastRun.candidates[l]

(* ------------------------------- C11 ----------------------------------- *)

\* Run k + 1 of the monthly job repeats run k: the same statement date and
\* processing date, on the rows exactly as run k left them (the same
\* accounts, meter readings and payments, no row added in between).
RepeatsRun(k) ==
    /\ jobs[k + 1].statement_date = jobs[k].statement_date
    /\ jobs[k + 1].processing_date = jobs[k].processing_date
    /\ jobs[k + 1].before = jobs[k].after

\* C11: once a run of add_monthly_charges has persisted the charges of a
\* statement period, a second run for the same period, accounts, meter
\* readings, setting and processing date persists no further RENT, STORAGE,
\* WATER or LATEFEE receivable.
C11_RerunPersistsNothing ==
    \A k \in 1..(Len(jobs) - 1) :
        (jobs[k].outcome = "count" /\ jobs[k].inserted # <<>> /\ RepeatsRun(k)) =>
            \A r \in Range(jobs[k + 1].inserted) :
                r.charge_type \notin {"RENT", "STORAGE", "WATER", "LATEFEE"}

(* ------------------------------- C14 ----------------------------------- *)

\* The receivables an issuance returned for one account.
IssuedFor(account_id) ==
    {k \in 1..Len(issue.ret.items) : issue.ret.items[k].account_id = account_id}

\* The accounts handed to an issuance of RENT or STORAGE.
IssuedAccounts == Range(issue.input_list)

\* C14: an issuance of RENT yields no receivable for an account that has no
\* lot assigned, whatever the rate configuration and whatever the account's
\* rent override.
C14_NoLotNoRent ==
    (issue.made /\ issue.charge_type = "RENT") =>
        \A a \in IssuedAccounts : a.lot_id = NoLot => IssuedFor(a.id) = {}

\* An issuance of RENT for an account with no lot and a rent override of 1,
\* together with an account that has a lot and is charged.
C14_Witness ==
    /\ issue.made
    /\ issue.charge_type = "RENT"
    /\ \E a \in IssuedAccounts :
          a.lot_id = NoLot /\ a.rental_rate_override = Some(1)
    /\ \E a \in IssuedAccounts : a.lot_id # NoLot /\ IssuedFor(a.id) # {}

(* ------------------------------- C15 ----------------------------------- *)

\* What an issuance charged one account: the amount of its receivable, 0 when
\* it got none.
ChargeOf(account_id) ==
    IF IssuedFor(account_id) = {} THEN 0
    ELSE issue.ret.items[CHOOSE k \in IssuedFor(account_id) : TRUE].amount_due

\* C15: the RENT charged to an account with a lot is the account's rent
\* override whenever one is set, 0 included, and the monthly rent rate of the
\* configuration only when none is set.
C15_OverrideWhenSet ==
    (issue.made /\ issue.charge_type = "RENT") =>
        \A a \in IssuedAccounts :
            a.lot_id # NoLot =>
                ChargeOf(a.id) = IF a.rental_rate_override # None
                                 THEN a.rental_rate_override[1]
                                 ELSE issue.config.rent_monthly_rate

(* ------------------------------- C16 ----------------------------------- *)

\* The accounts of input_list whose amount is not 0, in the order of the list.
ChargedAccounts ==
    SelectSeq(issue.input_list,
              LAMBDA a : _calculate_amount_due(a, issue.charge_type,
                                               issue.config) # 0)

\* C16: for RENT and STORAGE and any list of accounts, the empty one
\* included, the issuance returns a list with exactly one receivable per
\* account whose amount is not 0 and none for the others, each unpaid, of the
\* target statement period and the requested kind, with empty details.
C16_IssuanceOutput ==
    (issue.made /\ issue.charge_type \in {"RENT", "STORAGE"}) =>
        /\ ~issue.ret.is_none
        /\ Len(issue.ret.items) = Len(ChargedAccounts)
        /\ \A k \in 1..Len(issue.ret.items) :
              LET r == issue.ret.items[k]
              IN  /\ r.account_id = ChargedAccounts[k].id
                  /\ r.amount_due # 0
                  /\ r.paid = FALSE
                  /\ r.statement_date = issue.statement_date
                  /\ r.charge_type = issue.charge_type
                  /\ r.details = NoDetails

(* ------------------------------- C12 ----------------------------------- *)

\* The late fees of the last late-fee call, and the still overdue items it
\* charged them on.
LateFees == late_fee.ret.inserts

FeesOn(id) == {k \in 1..Len(LateFees) : LateFees[k].details.ref = id}

\* C12: a still overdue item gets a late fee exactly when no processing date
\* is given or its statement date lies more than overdue_cutoff_days days
\* before the processing date, whatever the grace period of the rate
\* configuration; an item within the grace period gets none.
C12_GracePeriod ==
    late_fee.made =>
        \A o \in Range(late_fee.ret.still_overdue) :
            (FeesOn(o.id) # {}) <=>
                \/ late_fee.processing_date = None
                \/ o.statement_date + late_fee.config.overdue_cutoff_days
                       < late_fee.processing_date[1]

(* ------------------------------- C13 ----------------------------------- *)

\* What the payments of the late-fee call put on the overdue item id.
FeeApplied(id) ==
    LET log == late_fee.ret.allocation.log
    IN  SumSeq([k \in 1..Len(log) |->
                   IF log[k].receivable = id THEN Moved(log[k]) ELSE 0])

\* The overdue item a late fee goes back to: the item named in its details,
\* or the item whose residual is named there.
OriginOf(fee) ==
    IF fee.details.ref \in Ids(late_fee.overdue_items) THEN fee.details.ref
    ELSE LET res == CHOOSE r \in Range(late_fee.ret.still_overdue) :
                        r.id = fee.details.ref
         IN  res.details.ref

FeesFrom(id) == {k \in 1..Len(LateFees) : OriginOf(LateFees[k]) = id}

\* The rate times an amount, to the cent.
RateTimes(amount) ==
    Round2(amount * late_fee.config.late_fee_rate.num,
           late_fee.config.late_fee_rate.den)

\* Past due by the code's reading and by the configuration's alike.
ClearlyPastDue(o) ==
    \/ late_fee.processing_date = None
    \/ /\ o.statement_date + LateFeeDays < late_fee.processing_date[1]
       /\ o.statement_date + late_fee.config.overdue_cutoff_days
              < late_fee.processing_date[1]

\* C13: late fees are charged on what is left unpaid once the payments are
\* applied.  An overdue item (an amount owed) the payments cover in full gets
\* no late fee; one they do not cover in full gets, when past due, one late
\* fee of rate x what is left of it: the full amount when no payment reached
\* it, the leftover when it was covered in part.  Every late fee goes back to
\* an overdue item handed in, is of kind LATEFEE, unpaid, of that item's
\* account and of the late-fee statement date.
C13_LateFeeOnUnpaidRemainder ==
    late_fee.made =>
        /\ \A k \in 1..Len(LateFees) :
              /\ LateFees[k].charge_type = "LATEFEE"
              /\ LateFees[k].paid = FALSE
              /\ LateFees[k].statement_date = late_fee.statement_date
              /\ \E o \in Range(late_fee.overdue_items) :
                    /\ OriginOf(LateFees[k]) = o.id
                    /\ LateFees[k].account_id = o.account_id
                    /\ LateFees[k].amount_due = RateTimes(o.amount_due - FeeApplied(o.id))
        /\ \A o \in Range(late_fee.overdue_items) :
              o.amount_due > 0 =>
                  /\ FeeApplied(o.id) = o.amount_due => FeesFrom(o.id) = {}
                  /\ (FeeApplied(o.id) < o.amount_due /\ ClearlyPastDue(o)) =>
                        Cardinality(FeesFrom(o.id)) = 1

\* A call in which one item was covered in part and charged on its leftover,
\* which differs from the fee its full amount would bear, and another item
\* that no payment reached was charged on its full amount.
C13_Witness ==
    /\ late_fee.made
    /\ \E o \in Range(late_fee.overdue_items) :
          /\ FeeApplied(o.id) > 0
          /\ FeeApplied(o.id) < o.amount_due
          /\ \E k \in FeesFrom(o.id) :
                /\ LateFees[k].amount_due = RateTimes(o.amount_due - FeeApplied(o.id))
                /\ LateFees[k].amount_due # RateTimes(o.amount_due)
    /\ \E o \in Range(late_fee.overdue_items) :
          /\ o.amount_due > 0
          /\ FeeApplied(o.id) = 0
          /\ \E k \in FeesFrom(o.id) : LateFees[k].amount_due = RateTimes(o.amount_due)
    /\ late_fee.processing_date # None

(* ------------------------------- C17 ----------------------------------- *)

\* Every receivable at hand after a late-fee call: the items handed in as
\* the call left them, the residuals, and the late fees.
ReceivablesAfterLateFee ==
    Range(late_fee.ret.allocation.not_paid)
        \cup Range(late_fee.ret.allocation.partially_paid)
        \cup Range(late_fee.ret.allocation.fully_paid)
        \cup Range(late_fee.ret.still_overdue)
        \cup Range(LateFees)

\* C17: every receivable that exists (inputs, residuals and late fees) has
\* amount_due >= 0 unless its kind is OTHER; no late fee with a negative
\* amount is produced, also when an overdue item is a credit of kind OTHER.
C17_AmountNonNegativeUnlessOther ==
    late_fee.made =>
        \A r \in ReceivablesAfterLateFee :
            r.amount_due >= 0 \/ r.charge_type = "OTHER"

(* ------------------------------- C18 ----------------------------------- *)

\* What the validators forbid: a negative amount with a kind other than
\* OTHER, a current reading below the previous one.
Forbidden ==
    IF built.model = "AccountsReceivable"
    THEN built.given.amount_due < 0 /\ built.given.charge_type # "OTHER"
    ELSE built.given.current_reading < built.given.previous_reading

\* C18: constructing a receivable with a negative amount and a kind other
\* than OTHER, or a water usage whose current reading is below the previous
\* one, fails at once with a validation error and yields no object; any
\* other construction, a negative amount of kind OTHER included, yields the
\* object with the values given, never clamped ones.
C18_ValidationAtConstruction ==
    built.made =>
        IF Forbidden
        THEN built.got.outcome = "ValidationError" /\ built.got.object = None
        ELSE built.got.outcome = "object" /\ built.got.object = Some(built.given)

(* ------------------------------- C19 ----------------------------------- *)

\* The kinds of charge a run of the monthly job persists.
BatchKinds == {"RENT", "STORAGE", "WATER", "LATEFEE"}

\* A charge computation of the run yielded None instead of a list, or the
\* run ended in computing the overdue charges from one that did.
YieldedNone(job) ==
    \/ job.outcome = "TypeError"
    \/ \E i \in BatchKinds : job.ars[i].is_none

\* C19: when an upstream charge computation yields None instead of a list
\* (no water readings for the statement period, say), add_monthly_charges
\* persists no receivable of the batch and reports the incomplete charge
\* data as an outcome of its own (its "ERROR" answer), no TypeError
\* propagating.
C19_IncompleteChargeData ==
    \A k \in 1..Len(jobs) :
        YieldedNone(jobs[k]) =>
            /\ jobs[k].outcome = "ERROR"
            /\ jobs[k].inserted = <<>>
            /\ jobs[k].after.receivables = jobs[k].before.receivables

(* ------------------------------- C20 ----------------------------------- *)

\* C20: an allocation call changes no field of a payment but amount_applied,
\* never lowers amount_applied, and neither removes, adds nor reorders the
\* payments of the caller's list.
C20_PaymentFrame ==
    call.made =>
        /\ payments = ret.payments
        /\ Len(payments) = Len(PaymentsBefore)
        /\ \A i \in 1..Len(PaymentsBefore) :
              /\ payments[i] = [PaymentsBefore[i] EXCEPT
                                   !.amount_applied = payments[i].amount_applied]
              /\ payments[i].amount_applied >= PaymentsBefore[i].amount_applied

\* A call on two payments, one of which was applied in full and the other in
\* part.
C20_Witness ==
    /\ call.made
    /\ Len(PaymentsBefore) = 2
    /\ \E i, j \in 1..2 :
          /\ payments[i].amount_applied = payments[i].amount
          /\ payments[i].amount_applied > PaymentsBefore[i].amount_applied
          /\ payments[j].amount_applied > PaymentsBefore[j].amount_applied
          /\ payments[j].amount_applied < payments[j].amount

(* ------------------------------- C21 ----------------------------------- *)

Exhausted(p) == p.amount_applied = p.amount

\* C21: after a call the payment list is a run of exhausted payments, then
\* at most one payment consumed in part, then payments whose amount_applied
\* is what it was; and no pass applies anything to a payment while a payment
\* before it in the list is not exhausted.
C21_OnePointerInCallerOrder ==
    call.made =>
        /\ \E k \in 0..Len(payments) :
              /\ \A i \in 1..Len(payments) :
                    i <= k => Exhausted(payments[i])
              /\ \A i \in 1..Len(payments) :
                    i > k + 1 =>
                       payments[i].amount_applied
                          = PaymentsBefore[i].amount_applied
        /\ \A n \in 1..Len(ret.log) :
              \A j \in 1..(ret.log[n].payment - 1) :
                 Exhausted(PaymentsAt(n)[j])

\* A call that used up the first payment, took a part of the second and
\* found both untouched.
C21_Witness ==
    /\ call.made
    /\ Len(payments) = 2
    /\ PaymentsBefore[1].amount_applied = 0
    /\ PaymentsBefore[2].amount_applied = 0
    /\ Exhausted(payments[1])
    /\ payments[2].amount_applied > 0
    /\ ~Exhausted(payments[2])

(* ------------------------------- C22 ----------------------------------- *)

\* C22: a receivable that owes something and that no payment was applied to
\* comes back in not_paid as it was handed over, in no other list, and
\* nothing was moved to it from any payment.
C22_UnreachedComesBackUnchanged ==
    \A i \in 1..Len(In) :
        (call.made /\ In[i].amount_due > 0 /\ PassesOf(In[i].id) = {})
        => /\ In[i] \in Range(ret.not_paid)
           /\ Cardinality({j \in 1..Len(ret.not_paid) :
                               ret.not_paid[j].id = In[i].id}) = 1
           /\ In[i].id \notin Ids(ret.partially_paid) \cup Ids(ret.fully_paid)
           /\ ResidualsOf(In[i].id) = {}
           /\ MovedTo(In[i].id) = 0

\* The payments went to the later receivable and were used up before the
\* earlier one was reached.
C22_Witness ==
    /\ call.made
    /\ PaymentsBefore # <<>>
    /\ SumApplied(payments) > SumApplied(PaymentsBefore)
    /\ \E i \in 1..Len(In) :
          /\ In[i].amount_due > 0
          /\ PassesOf(In[i].id) = {}
          /\ In[i] \in Range(ret.not_paid)

(* ------------------------------- C23 ----------------------------------- *)

\* C23: in a call with at least one payment, a receivable handed over with
\* an amount_due of 0 comes back in fully_paid with the amount it had, and
\* takes nothing from any payment.
C23_NothingDueIsFullyPaid ==
    \A i \in 1..Len(In) :
        (call.made /\ PaymentsBefore # <<>> /\ In[i].amount_due = 0)
        => /\ \E j \in 1..Len(ret.fully_paid) :
                 /\ ret.fully_paid[j].id = In[i].id
                 /\ ret.fully_paid[j].amount_due = In[i].amount_due
           /\ PassesOf(In[i].id) = {}

(* ------------------------------- C24 ----------------------------------- *)

\* C24: a call returns at most one residual and at most one partially paid
\* receivable, as many of the one as of the other, so that the caller's
\* guard on storing the residuals is always passed.
C24_AtMostOneResidual ==
    call.made =>
        /\ Len(ret.residual) <= 1
        /\ Len(ret.partially_paid) <= 1
        /\ Len(ret.residual) = Len(ret.partially_paid)
        /\ ResidualGuard(ret.residual)

\* Two receivables owed more than two payments had left: one was paid in
\* part, with a residual, and the other not reached.
C24_Witness ==
    /\ call.made
    /\ Len(PaymentsBefore) = 2
    /\ Len(In) = 2
    /\ \A i \in 1..2 : In[i].amount_due > 0
    /\ Len(ret.residual) = 1
    /\ Len(ret.partially_paid) = 1
    /\ Len(ret.not_paid) = 1

(* ------------------------------- C25 ----------------------------------- *)

\* The places at which the receivable of this id comes back in not_paid,
\* partially_paid and fully_paid together.
PlacesOf(id) ==
    Cardinality({j \in 1..Len(ret.not_paid) : ret.not_paid[j].id = id})
    + Cardinality({j \in 1..Len(ret.partially_paid) :
                      ret.partially_paid[j].id = id})
    + Cardinality({j \in 1..Len(ret.fully_paid) : ret.fully_paid[j].id = id})

\* C25: in a call with at least one payment, every receivable handed over
\* comes back in exactly one of not_paid, partially_paid and fully_paid,
\* credits of kind OTHER and unpaid receivables with nothing due included.
C25_Partition ==
    (call.made /\ PaymentsBefore # <<>>) =>
        \A i \in 1..Len(In) : PlacesOf(In[i].id) = 1

(* ------------------------------- C26 ----------------------------------- *)

\* The accounts whose payments request k applied.
AccountsOf(k) ==
    IF Given(applied[k].account_id) THEN {applied[k].account_id[1]}
    ELSE {a.id : a \in Range(applied[k].before.accounts)}

\* Request k + 1 applies the payments again: in write mode as request k,
\* with the same processing date, to accounts request k went through, on the
\* rows exactly as request k left them.
AppliesAgain(k) ==
    /\ applied[k].write_mode
    /\ applied[k + 1].write_mode
    /\ applied[k + 1].processing_date = applied[k].processing_date
    /\ AccountsOf(k + 1) \subseteq AccountsOf(k)
    /\ applied[k + 1].before = applied[k].after

\* C26: applying the payments of an account again, nothing added since,
\* changes no stored receivable and no stored payment and stores no
\* residual.
C26_ApplyingAgainChangesNothing ==
    \A k \in 1..(Len(applied) - 1) :
        AppliesAgain(k) => applied[k + 1].after = applied[k + 1].before

\* The payments were applied again for an account after a request that had
\* used up a payment on its receivables and stored a residual.
C26_Witness ==
    \E k \in 1..(Len(applied) - 1) :
        /\ AppliesAgain(k)
        /\ Given(applied[k + 1].account_id)
        /\ Len(applied[k].after.receivables) > Len(applied[k].before.receivables)
        /\ applied[k].after.payments # applied[k].before.payments

(* ------------------------------- C29 ----------------------------------- *)

\* C29: a request to process_payments_api for one account applies the
\* payments of that account and returns; it does not end in an error.
C29_ReturnsForAnAccount ==
    \A k \in 1..Len(applied) :
        Given(applied[k].account_id) => applied[k].outcome = "returned"

(* ------------------------------- C27 ----------------------------------- *)

\* C27: every late fee of a late-fee call names in details.original_item_id
\* one of the overdue items handed in, also when the payments covered that
\* item in part.
C27_OriginalItemIsAnOverdueItem ==
    late_fee.made =>
        \A k \in 1..Len(LateFees) :
            /\ LateFees[k].details.key = "original_item_id"
            /\ LateFees[k].details.ref \in Ids(late_fee.overdue_items)

(* ------------------------------- C28 ----------------------------------- *)

\* C28: a run of the monthly job only inserts receivables: every receivable
\* stored before the run is stored after it with the paid flag and the
\* amount_due it had, and the payments are stored as they were.
C28_JobOnlyInserts ==
    \A k \in 1..Len(jobs) :
        /\ \A r \in Range(jobs[k].before.receivables) :
              \E t \in Range(jobs[k].after.receivables) :
                 /\ t.id = r.id
                 /\ t.paid = r.paid
                 /\ t.amount_due = r.amount_due
        /\ jobs[k].after.payments = jobs[k].before.payments

(* ------------------------------- C30 ----------------------------------- *)

\* The stored rent charges of an account for a statement date.
RentsOf(rows, account_id, statement_date) ==
    {r \in Range(rows) : /\ r.charge_type = "RENT"
                         /\ r.account_id = account_id
                         /\ r.statement_date = statement_date}

\* C30: once a run of the monthly job for a statement date is through,
\* every account with a lot has a RENT receivable of that statement date,
\* also when rent charges of that date were stored before the run for other
\* accounts only.
C30_EveryLotIsChargedRent ==
    \A k \in 1..Len(jobs) :
        jobs[k].outcome = "count" =>
            \A a \in Range(jobs[k].after.accounts) :
                a.lot_id # NoLot =>
                    RentsOf(jobs[k].after.receivables, a.id,
                            jobs[k].statement_date) # {}

====
